---- MODULE Spec2Model ----
(***************************************************************************)
(* A model of the in-memory column-family skiplist engine                  *)
(* (components/engine_skiplist/src/engine.rs), of its iterator and of the  *)
(* Raft log adaptor built on it (components/engine_skiplist/src/           *)
(* raft_engine.rs).                                                        *)
(*                                                                         *)
(* Keys and values are byte strings, modelled as sequences of naturals     *)
(* below 256 and ordered lexicographically, as Vec<u8> is.  A column       *)
(* family table (a crossbeam SkipMap) is a function from the keys it holds *)
(* to their values.  A skiplist Entry held by an iterator is a reference   *)
(* to a node: it keeps the key and the value the node had when it was      *)
(* obtained, also after the node was removed from the map, and stepping    *)
(* from it searches the current map by key.                                *)
(***************************************************************************)
EXTENDS Integers, Sequences, FiniteSets, TLC

VARIABLES
    cf_handles,   \* SkiplistEngine.cf_handles: the registered CF names
    engines,      \* SkiplistEngine.engines: CF name -> table
    total_bytes,  \* SkiplistEngine.total_bytes
    iter,         \* the SkiplistEngineIterator in use (NoIter before one is made)
    ret,          \* the last completed call and what it returned
    nops,         \* how many mutating engine calls have completed
    latest,       \* per CF name and key, what the calls so far left there:
                  \* Some(value of the last put), or None after a delete, a
                  \* covering delete_range, or when nothing was put
    buf,          \* the caller's output buffer after the last fetch_entries_to
    batch,        \* the SkiplistWriteBatch the caller stages into
    procs,        \* per thread, the engine call it is in and where in it
    node,         \* the Node, its engine's bootstrap records and the call of
                  \* Node::start in progress
    visited       \* the keys read by the running seek(Start)/next() loop, and
                  \* whether the table is still as it was when iter was made

vars == <<cf_handles, engines, total_bytes, iter, ret, nops, latest, buf, batch,
          procs, node, visited>>

\* ------------------------------------------------------------------ bounds

MaxOps == 4        \* mutating engine calls in one behaviour
MaxIndex == 10     \* the largest Raft log index appended
MaxAppends == 2    \* Raft adaptor writes (append, put_raft_state, consume) in one behaviour
MaxStaged == 2     \* staging calls are made on a batch of fewer operations

\* ----------------------------------------------------------- byte strings

\* Option<T>: None is the empty tuple, Some(x) the one-element tuple.
None == <<>>
Some(x) == <<x>>
Unwrap(o) == o[1]

Min(a, b) == IF a < b THEN a ELSE b

\* Vec<u8> / &[u8] ordering: lexicographic, a proper prefix is smaller.
KeyLt(a, b) ==
    LET n == Min(Len(a), Len(b))
        differ == {i \in 1..n : a[i] # b[i]}
    IN  IF differ = {} THEN Len(a) < Len(b)
        ELSE LET i == CHOOSE x \in differ : \A y \in differ : x <= y
             IN  a[i] < b[i]

KeyLe(a, b) == a = b \/ KeyLt(a, b)

CF_DEFAULT == "default"

\* the inputs of the engine calls
CfArgs == {"default", "write"}
K1 == <<1>>
K2 == <<1, 1>>
K3 == <<2>>
Keys == {K1, K2, K3}
V1 == <<1, 1>>
V2 == <<2, 2, 2, 2, 2, 2>>
Values == {V1, V2}
\* the CF name lists given to the builder
CfNameLists == {<<>>, <<"default", "write">>, <<"write">>}

\* ------------------------------------------------------- SkipMap (a table)

EmptyTable == [k \in {} |-> <<>>]

\* SkipMap::insert: an existing entry with the key is replaced.
Insert(t, k, v) == [x \in (DOMAIN t) \cup {k} |-> IF x = k THEN v ELSE t[x]]

\* SkipMap::remove / Entry::remove
Remove(t, k) == [x \in (DOMAIN t) \ {k} |-> t[x]]

EntryOf(t, k) == [key |-> k, value |-> t[k]]

\* the smallest / largest key of a non-empty set of keys
MinKey(S) == CHOOSE k \in S : \A x \in S : KeyLe(k, x)
MaxKey(S) == CHOOSE k \in S : \A x \in S : KeyLe(x, k)

\* SkipMap::lower_bound: the first entry whose key is at or above the bound;
\* the bound is Some(k) for Included(k) and None for Unbounded.
LowerBound(t, bound) ==
    LET S == {k \in DOMAIN t : bound = None \/ KeyLe(Unwrap(bound), k)}
    IN  IF S = {} THEN None ELSE Some(EntryOf(t, MinKey(S)))

\* SkipMap::upper_bound: the last entry whose key is at or below the bound.
UpperBound(t, bound) ==
    LET S == {k \in DOMAIN t : bound = None \/ KeyLe(k, Unwrap(bound))}
    IN  IF S = {} THEN None ELSE Some(EntryOf(t, MaxKey(S)))

\* Entry::next: the first entry of the map after the entry's key.
EntryNext(t, e) ==
    LET S == {k \in DOMAIN t : KeyLt(e.key, k)}
    IN  IF S = {} THEN None ELSE Some(EntryOf(t, MinKey(S)))

\* Entry::prev: the last entry of the map before the entry's key.
EntryPrev(t, e) ==
    LET S == {k \in DOMAIN t : KeyLt(k, e.key)}
    IN  IF S = {} THEN None ELSE Some(EntryOf(t, MaxKey(S)))

\* a range that takes the end key in as well
RangeKeysEndIncluded(t, begin, end) ==
    {k \in DOMAIN t : KeyLe(begin, k) /\ KeyLe(k, end)}

\* SkipMap::range(begin..end): the keys in [begin, end)
RangeKeys(t, begin, end) == {k \in DOMAIN t : KeyLe(begin, k) /\ KeyLt(k, end)}

\* ------------------------------------------------------------ the engine
\* An engine value: [cf_handles, engines, total_bytes].

\* SkiplistEngineBuilder::build
Build(cf_names) ==
    LET names == IF cf_names = <<>> THEN {CF_DEFAULT}
                 ELSE {cf_names[i] : i \in 1..Len(cf_names)}
    IN  [cf_handles |-> names,
         engines |-> [cf \in names |-> EmptyTable],
         total_bytes |-> 0]

\* SkiplistEngine::get_cf_engine: Ok when the CF is registered
HasCf(e, cf) == cf \in e.cf_handles

\* Peekable::get_value_cf_opt
GetValueCf(e, cf, key) ==
    IF ~HasCf(e, cf) THEN [res |-> "CFName", value |-> None]
    ELSE IF key \in DOMAIN e.engines[cf]
         THEN [res |-> "Ok", value |-> Some(e.engines[cf][key])]
         ELSE [res |-> "Ok", value |-> None]

\* a put that leaves an existing entry as it is
PutCfKeepsOld(e, cf, key, value) ==
    LET added == e.total_bytes + Len(key) + Len(value)
    IN  IF ~HasCf(e, cf)
        THEN [e |-> [e EXCEPT !.total_bytes = added], res |-> "CFName"]
        ELSE IF key \in DOMAIN e.engines[cf]
        THEN [e |-> [e EXCEPT !.total_bytes = added], res |-> "Ok"]
        ELSE [e |-> [e EXCEPT !.total_bytes = added,
                              !.engines[cf] = Insert(@, key, value)],
              res |-> "Ok"]

\* SyncMutable::put_cf: the counter is raised before the CF is looked up
PutCf(e, cf, key, value) ==
    LET added == e.total_bytes + Len(key) + Len(value)
    IN  IF ~HasCf(e, cf)
        THEN [e |-> [e EXCEPT !.total_bytes = added], res |-> "CFName"]
        ELSE [e |-> [e EXCEPT !.total_bytes = added,
                              !.engines[cf] = Insert(@, key, value)],
              res |-> "Ok"]

\* SyncMutable::delete_cf
DeleteCf(e, cf, key) ==
    IF ~HasCf(e, cf) THEN [e |-> e, res |-> "CFName"]
    ELSE IF key \in DOMAIN e.engines[cf]
         THEN [e |-> [e EXCEPT
                        !.total_bytes = @ - Len(key) - Len(e.engines[cf][key]),
                        !.engines[cf] = Remove(@, key)],
               res |-> "Ok"]
         ELSE [e |-> e, res |-> "Ok"]

\* the summed |key| + |value| of the entries of t with keys in S
RECURSIVE BytesOf(_, _)
BytesOf(t, S) ==
    IF S = {} THEN 0
    ELSE LET k == CHOOSE x \in S : TRUE
         IN  Len(k) + Len(t[k]) + BytesOf(t, S \ {k})

\* SyncMutable::delete_range_cf: every entry of the range is removed and
\* subtracted, one by one
RECURSIVE DeleteRangeLoop(_, _, _)
DeleteRangeLoop(e, cf, S) ==
    IF S = {} THEN e
    ELSE LET k == MinKey(S)
             t == e.engines[cf]
         IN  DeleteRangeLoop(
                 [e EXCEPT !.total_bytes = @ - Len(k) - Len(t[k]),
                           !.engines[cf] = Remove(@, k)],
                 cf, S \ {k})

DeleteRangeCf(e, cf, begin_key, end_key) ==
    IF ~HasCf(e, cf) THEN [e |-> e, res |-> "CFName"]
    ELSE [e |-> DeleteRangeLoop(e, cf, RangeKeys(e.engines[cf], begin_key, end_key)),
          res |-> "Ok"]

Engine == [cf_handles |-> cf_handles, engines |-> engines, total_bytes |-> total_bytes]

SetEngine(e) ==
    /\ cf_handles' = e.cf_handles
    /\ engines' = e.engines
    /\ total_bytes' = e.total_bytes

\* ----------------------------------------------------------- the iterator
\* An iterator value: [made, cf, lower, upper, lower_bound, upper_bound,
\* cursor, valid]; lower and upper are the bounds of the IterOptions, the
\* other fields are the fields of SkiplistEngineIterator.

NoIter == [made |-> FALSE, cf |-> CF_DEFAULT, lower |-> None, upper |-> None,
           lower_bound |-> None, upper_bound |-> None, cursor |-> None,
           valid |-> FALSE]

\* SkiplistEngineIterator::new, called by iterator_cf_opt with both bounds
\* Included (or Unbounded when the option is absent)
IterNew(t, cf, lower, upper) ==
    [made |-> TRUE, cf |-> cf, lower |-> lower, upper |-> upper,
     lower_bound |-> LowerBound(t, lower),
     upper_bound |-> UpperBound(t, upper),
     cursor |-> LowerBound(t, lower),
     valid |-> TRUE]

\* Entry::move_next / Entry::move_prev: the entry stays where it is when
\* there is no neighbour
MoveNext(t, e) == LET n == EntryNext(t, e) IN IF n = None THEN e ELSE Unwrap(n)
MovePrev(t, e) == LET n == EntryPrev(t, e) IN IF n = None THEN e ELSE Unwrap(n)

\* seek(Key(key)), first branch: while key < cursor.key { move_next or break }
RECURSIVE SeekWalkNext(_, _, _)
SeekWalkNext(t, c, key) ==
    IF KeyLt(key, c.key) /\ EntryNext(t, c) # None
    THEN SeekWalkNext(t, MoveNext(t, c), key)
    ELSE c

\* seek(Key(key)), second branch: while the previous entry is at or above key,
\* move_prev
RECURSIVE SeekWalkPrev(_, _, _)
SeekWalkPrev(t, c, key) ==
    LET e == EntryPrev(t, c)
    IN  IF e # None /\ KeyLe(key, Unwrap(e).key)
        THEN SeekWalkPrev(t, MovePrev(t, c), key)
        ELSE c

\* A SeekKey: [kind |-> "Start" | "End" | "Key", key |-> the key of Key(key)]
SeekStart == [kind |-> "Start", key |-> <<>>]
SeekEnd == [kind |-> "End", key |-> <<>>]
SeekTo(k) == [kind |-> "Key", key |-> k]

\* Iterator::seek; the result is [it, res]
IterSeek(it, t, sk) ==
    IF it.cursor = None THEN [it |-> it, res |-> FALSE]
    ELSE LET c == Unwrap(it.cursor)
             moved ==
                 IF sk.kind = "Start" THEN it.lower_bound
                 ELSE IF sk.kind = "End" THEN it.upper_bound
                 ELSE IF KeyLt(sk.key, c.key) THEN Some(SeekWalkNext(t, c, sk.key))
                 ELSE IF KeyLt(c.key, sk.key) THEN Some(SeekWalkPrev(t, c, sk.key))
                 ELSE it.cursor
         IN  [it |-> [it EXCEPT !.cursor = moved], res |-> TRUE]

\* seek_for_prev(Key(key)), first branch: while the next entry is at or below
\* key, move_next
RECURSIVE SeekForPrevWalkNext(_, _, _)
SeekForPrevWalkNext(t, c, key) ==
    LET e == EntryNext(t, c)
    IN  IF e # None /\ KeyLe(Unwrap(e).key, key)
        THEN SeekForPrevWalkNext(t, MoveNext(t, c), key)
        ELSE c

\* seek_for_prev(Key(key)), second branch: while key > cursor.key
\* { move_prev or break }
RECURSIVE SeekForPrevWalkPrev(_, _, _)
SeekForPrevWalkPrev(t, c, key) ==
    IF KeyLt(c.key, key) /\ EntryPrev(t, c) # None
    THEN SeekForPrevWalkPrev(t, MovePrev(t, c), key)
    ELSE c

\* Iterator::seek_for_prev
IterSeekForPrev(it, t, sk) ==
    IF it.cursor = None THEN [it |-> it, res |-> FALSE]
    ELSE LET c == Unwrap(it.cursor)
             moved ==
                 IF sk.kind = "Start" THEN it.lower_bound
                 ELSE IF sk.kind = "End" THEN it.upper_bound
                 ELSE IF KeyLt(sk.key, c.key)
                      THEN Some(SeekForPrevWalkNext(t, c, sk.key))
                 ELSE IF KeyLt(c.key, sk.key)
                      THEN Some(SeekForPrevWalkPrev(t, c, sk.key))
                 ELSE it.cursor
         IN  [it |-> [it EXCEPT !.cursor = moved], res |-> TRUE]

\* Iterator::next
IterNext(it, t) ==
    IF it.cursor = None THEN [it |-> [it EXCEPT !.valid = FALSE], res |-> FALSE]
    ELSE LET n == EntryNext(t, Unwrap(it.cursor))
             moved == n # None
         IN  [it |-> [it EXCEPT !.cursor = IF moved THEN n ELSE @, !.valid = moved],
              res |-> moved]

\* Iterator::prev
IterPrev(it, t) ==
    IF it.cursor = None THEN [it |-> [it EXCEPT !.valid = FALSE], res |-> FALSE]
    ELSE LET n == EntryPrev(t, Unwrap(it.cursor))
             moved == n # None
         IN  [it |-> [it EXCEPT !.cursor = IF moved THEN n ELSE @, !.valid = moved],
              res |-> moved]

\* Iterator::key, Iterator::value, Iterator::valid
IterKey(it) == IF it.cursor = None THEN <<>> ELSE Unwrap(it.cursor).key
IterValue(it) == IF it.cursor = None THEN <<>> ELSE Unwrap(it.cursor).value
IterValid(it) == it.valid

\* ------------------------------------------------------------ key schema

\* 256^n for the four low bytes of a 64-bit integer
Pow256(n) == IF n = 0 THEN 1 ELSE IF n = 1 THEN 256 ELSE IF n = 2 THEN 65536
             ELSE 16777216

\* be64(n), the 8-byte big-endian encoding, for n < 2^31 (the four high bytes
\* are zero)
Be64(n) == [i \in 1..8 |-> IF i <= 4 THEN 0 ELSE (n \div Pow256(8 - i)) % 256]

\* the integer an 8-byte big-endian string encodes (high bytes zero)
FromBe64(b) == b[5] * Pow256(3) + b[6] * Pow256(2) + b[7] * Pow256(1) + b[8]

RAFT_LOG_PREFIX == <<1>>
RAFT_STATE_PREFIX == <<2>>

\* keys::raft_state_key, keys::raft_log_prefix, keys::raft_log_key
raft_state_key(g) == RAFT_STATE_PREFIX \o Be64(g)
raft_log_prefix(g) == RAFT_LOG_PREFIX \o Be64(g)
raft_log_key(g, index) == raft_log_prefix(g) \o Be64(index)

\* a prefix test that accepts every key
StartsWithAny(key, prefix) == TRUE

\* key.starts_with(prefix)
StartsWith(key, prefix) ==
    Len(prefix) <= Len(key) /\ SubSeq(key, 1, Len(prefix)) = prefix

\* keys::raft_log_index: the last 8 bytes of a key that is long enough
raft_log_index(key) ==
    IF Len(key) < Len(RAFT_LOG_PREFIX) + 16 THEN [ok |-> FALSE, index |-> 0]
    ELSE [ok |-> TRUE, index |-> FromBe64(SubSeq(key, Len(key) - 7, Len(key)))]

\* ------------------------------------------------------ protobuf messages
\* eraftpb::Entry: entry_type = 1 (enum), term = 2, index = 3 (varints),
\* data = 4 (bytes).  A field at its default is not written; a varint below
\* 128 is one byte.  An entry value is [entry_type, term, index, data].

MkEntry(index, data) == [entry_type |-> 0, term |-> 0, index |-> index, data |-> data]

\* Message::write_to_vec for an Entry
EncodeEntry(e) ==
    (IF e.entry_type # 0 THEN <<8, e.entry_type>> ELSE <<>>)
    \o (IF e.term # 0 THEN <<16, e.term>> ELSE <<>>)
    \o (IF e.index # 0 THEN <<24, e.index>> ELSE <<>>)
    \o (IF e.data # <<>> THEN <<34, Len(e.data)>> \o e.data ELSE <<>>)

\* Message::merge_from_bytes into an Entry: [ok, entry]; a tag with the wrong
\* wire type (10: field 1 as a message) or a truncated field is an error; no
\* other tag occurs in the values the adaptor stores
RECURSIVE MergeEntry(_, _)
MergeEntry(e, bytes) ==
    IF bytes = <<>> THEN [ok |-> TRUE, entry |-> e]
    ELSE IF Len(bytes) < 2 THEN [ok |-> FALSE, entry |-> e]
    ELSE LET tag == bytes[1]
             rest == SubSeq(bytes, 3, Len(bytes))
         IN  IF tag = 8 THEN MergeEntry([e EXCEPT !.entry_type = bytes[2]], rest)
             ELSE IF tag = 16 THEN MergeEntry([e EXCEPT !.term = bytes[2]], rest)
             ELSE IF tag = 24 THEN MergeEntry([e EXCEPT !.index = bytes[2]], rest)
             ELSE IF tag = 34 /\ Len(rest) >= bytes[2]
                  THEN MergeEntry([e EXCEPT !.data = @ \o SubSeq(rest, 1, bytes[2])],
                                  SubSeq(rest, bytes[2] + 1, Len(rest)))
             ELSE [ok |-> FALSE, entry |-> e]

DecodeEntry(bytes) == MergeEntry(MkEntry(0, <<>>), bytes)

\* raft_serverpb::RaftLocalState: hard_state = 1 (a message, written with tag
\* 10 and its length when set), last_index = 2 (varint).  A state value is
\* [hard_state, last_index] with hard_state None or Some of
\* [term, vote, commit] (eraftpb::HardState, fields 1, 2, 3).
EncodeHardState(h) ==
    (IF h.term # 0 THEN <<8, h.term>> ELSE <<>>)
    \o (IF h.vote # 0 THEN <<16, h.vote>> ELSE <<>>)
    \o (IF h.commit # 0 THEN <<24, h.commit>> ELSE <<>>)

EncodeRaftLocalState(s) ==
    (IF s.hard_state # None
     THEN <<10, Len(EncodeHardState(Unwrap(s.hard_state)))>>
          \o EncodeHardState(Unwrap(s.hard_state))
     ELSE <<>>)
    \o (IF s.last_index # 0 THEN <<16, s.last_index>> ELSE <<>>)

\* ------------------------------------------------------- Raft log adaptor

RAFT_LOG_MULTI_GET_CNT == 8

\* the result of an adaptor call: Ok(n), or an error kind, or a panic
Ok(n) == [kind |-> "Ok", n |-> n]
Err(kind) == [kind |-> kind, n |-> 0]

\* max_size.unwrap_or(usize::MAX): total_size >= max_size
ReachedMaxSize(total_size, max_size) ==
    max_size # None /\ total_size >= Unwrap(max_size)

\* a point-get loop that passes over a missing index
RECURSIVE FetchSmallSkipsMissing(_, _, _, _, _, _)
FetchSmallSkipsMissing(e, region_id, i, high, max_size, st) ==
    IF i >= high THEN [res |-> Ok(st.count), buf |-> st.buf]
    ELSE IF st.total_size > 0 /\ ReachedMaxSize(st.total_size, max_size)
    THEN [res |-> Ok(st.count), buf |-> st.buf]
    ELSE LET got == GetValueCf(e, CF_DEFAULT, raft_log_key(region_id, i))
         IN  IF got.res # "Ok" THEN [res |-> Err("Other"), buf |-> st.buf]
             ELSE IF got.value = None
             THEN FetchSmallSkipsMissing(e, region_id, i + 1, high, max_size, st)
             ELSE LET v == Unwrap(got.value)
                      d == DecodeEntry(v)
                  IN  IF ~d.ok THEN [res |-> Err("Codec"), buf |-> st.buf]
                      ELSE IF d.entry.index # i
                      THEN [res |-> Err("Panic"), buf |-> st.buf]
                      ELSE FetchSmallSkipsMissing(e, region_id, i + 1, high, max_size,
                               [buf |-> Append(st.buf, d.entry),
                                total_size |-> st.total_size + Len(v),
                                count |-> st.count + 1])

\* FetchSmall without the buf.push(entry) of its loop
RECURSIVE FetchSmallNoPush(_, _, _, _, _, _)
FetchSmallNoPush(e, region_id, i, high, max_size, st) ==
    IF i >= high THEN [res |-> Ok(st.count), buf |-> st.buf]
    ELSE IF st.total_size > 0 /\ ReachedMaxSize(st.total_size, max_size)
    THEN [res |-> Ok(st.count), buf |-> st.buf]
    ELSE LET got == GetValueCf(e, CF_DEFAULT, raft_log_key(region_id, i))
         IN  IF got.res # "Ok" THEN [res |-> Err("Other"), buf |-> st.buf]
             ELSE IF got.value = None
             THEN [res |-> Err("Unavailable"), buf |-> st.buf]
             ELSE LET v == Unwrap(got.value)
                      d == DecodeEntry(v)
                  IN  IF ~d.ok THEN [res |-> Err("Codec"), buf |-> st.buf]
                      ELSE IF d.entry.index # i
                      THEN [res |-> Err("Panic"), buf |-> st.buf]
                      ELSE FetchSmallNoPush(e, region_id, i + 1, high, max_size,
                               [buf |-> st.buf,
                                total_size |-> st.total_size + Len(v),
                                count |-> st.count + 1])

\* fetch_entries_to, small range: the loop `for i in low..high` from index i
\* on; st is [buf, total_size, count]
RECURSIVE FetchSmall(_, _, _, _, _, _)
FetchSmall(e, region_id, i, high, max_size, st) ==
    IF i >= high THEN [res |-> Ok(st.count), buf |-> st.buf]
    ELSE IF st.total_size > 0 /\ ReachedMaxSize(st.total_size, max_size)
    THEN [res |-> Ok(st.count), buf |-> st.buf]
    ELSE LET got == GetValueCf(e, CF_DEFAULT, raft_log_key(region_id, i))
         IN  IF got.res # "Ok" THEN [res |-> Err("Other"), buf |-> st.buf]
             ELSE IF got.value = None
             THEN [res |-> Err("Unavailable"), buf |-> st.buf]
             ELSE LET v == Unwrap(got.value)
                      d == DecodeEntry(v)
                  IN  IF ~d.ok THEN [res |-> Err("Codec"), buf |-> st.buf]
                      ELSE IF d.entry.index # i
                      THEN [res |-> Err("Panic"), buf |-> st.buf]
                      ELSE FetchSmall(e, region_id, i + 1, high, max_size,
                               [buf |-> Append(st.buf, d.entry),
                                total_size |-> st.total_size + Len(v),
                                count |-> st.count + 1])

\* the closure fetch_entries_to hands to scan, applied to one value; st is
\* [buf, total_size, count, check_compacted, next_index, failed, more]: more
\* is the boolean it returns, failed the error or panic it ends with
FetchVisit(st, low, max_size, value) ==
    LET d == DecodeEntry(value)
    IN  IF ~d.ok THEN [st EXCEPT !.failed = "Codec", !.more = FALSE]
        ELSE IF st.check_compacted /\ d.entry.index # low
        THEN [st EXCEPT !.more = FALSE]    \* may meet gap or has been compacted
        ELSE IF ~st.check_compacted /\ d.entry.index # st.next_index
        THEN [st EXCEPT !.failed = "Panic", !.more = FALSE]
        ELSE [st EXCEPT !.check_compacted = FALSE,
                        !.next_index = @ + 1,
                        !.buf = Append(@, d.entry),
                        !.total_size = @ + Len(value),
                        !.count = @ + 1,
                        !.more = ~ReachedMaxSize(st.total_size + Len(value), max_size)]

\* Iterable::scan, the loop over the positioned iterator:
\*   while remained { remained = f(it.key(), it.value())? && it.next()? }
RECURSIVE ScanLoop(_, _, _, _, _, _)
ScanLoop(it, t, low, max_size, remained, st) ==
    IF ~remained THEN st
    ELSE LET st2 == FetchVisit(st, low, max_size, IterValue(it))
             stepped == IterNext(it, t)
         IN  IF st2.more
             THEN ScanLoop(stepped.it, t, low, max_size, stepped.res, st2)
             ELSE st2

\* Iterable::scan(start_key, end_key, ..), the opening: an iterator of the
\* default CF with the two keys as its bounds, sought to start_key
ScanOpen(t, start_key, end_key) ==
    IterSeek(IterNew(t, CF_DEFAULT, Some(start_key), Some(end_key)), t,
             SeekTo(start_key))

\* a large-range fetch that reports whatever the scan collected as a success
FetchLargeShortIsOk(e, region_id, low, high, max_size, buf0) ==
    IF ~HasCf(e, CF_DEFAULT) THEN [res |-> Err("Other"), buf |-> buf0]
    ELSE LET t == e.engines[CF_DEFAULT]
             sought == ScanOpen(t, raft_log_key(region_id, low),
                                raft_log_key(region_id, high))
             st == ScanLoop(sought.it, t, low, max_size, sought.res,
                            [buf |-> buf0, total_size |-> 0, count |-> 0,
                             check_compacted |-> TRUE, next_index |-> low,
                             failed |-> "no", more |-> TRUE])
         IN  IF st.failed # "no" THEN [res |-> Err(st.failed), buf |-> st.buf]
             ELSE [res |-> Ok(st.count), buf |-> st.buf]

\* fetch_entries_to, large range: the scan, then the count is judged
FetchLarge(e, region_id, low, high, max_size, buf0) ==
    IF ~HasCf(e, CF_DEFAULT) THEN [res |-> Err("Other"), buf |-> buf0]
    ELSE LET t == e.engines[CF_DEFAULT]
             sought == ScanOpen(t, raft_log_key(region_id, low),
                                raft_log_key(region_id, high))
             st == ScanLoop(sought.it, t, low, max_size, sought.res,
                            [buf |-> buf0, total_size |-> 0, count |-> 0,
                             check_compacted |-> TRUE, next_index |-> low,
                             failed |-> "no", more |-> TRUE])
         IN  IF st.failed # "no" THEN [res |-> Err(st.failed), buf |-> st.buf]
             ELSE IF st.count = high - low \/ ReachedMaxSize(st.total_size, max_size)
             THEN [res |-> Ok(st.count), buf |-> st.buf]
             ELSE [res |-> Err("Unavailable"), buf |-> st.buf]

\* RaftEngine::fetch_entries_to(region_id, low, high, max_size, buf), low <= high
FetchEntriesTo(e, region_id, low, high, max_size, buf0) ==
    IF high - low <= RAFT_LOG_MULTI_GET_CNT
    THEN FetchSmall(e, region_id, low, high, max_size,
                    [buf |-> buf0, total_size |-> 0, count |-> 0])
    ELSE FetchLarge(e, region_id, low, high, max_size, buf0)

\* SkiplistWriteBatch::append_impl followed by consume: the entries are put
\* under their log keys in the default CF, in order
RECURSIVE AppendImpl(_, _, _)
AppendImpl(e, raft_group_id, entries) ==
    IF entries = <<>> THEN e
    ELSE AppendImpl(
             PutCf(e, CF_DEFAULT, raft_log_key(raft_group_id, Head(entries).index),
                   EncodeEntry(Head(entries))).e,
             raft_group_id, Tail(entries))

\* RaftEngine::put_raft_state
PutRaftStateOp(e, raft_group_id, state) ==
    PutCf(e, CF_DEFAULT, raft_state_key(raft_group_id), EncodeRaftLocalState(state))

\* ------------------------------------------------------------ write batch
\* SkiplistWriteBatch: the staged operations in staging order and data_size,
\* the summed encoded size of the staged operations (|key| + |value| of a
\* put, |key| of a delete).  A staged operation is [op, cf, key, value].

EmptyBatch == [ops |-> <<>>, data_size |-> 0]

\* Mutable::put_cf on the batch
WbPut(b, cf, key, value) ==
    [ops |-> Append(b.ops, [op |-> "put", cf |-> cf, key |-> key, value |-> value]),
     data_size |-> b.data_size + Len(key) + Len(value)]

\* Mutable::delete_cf on the batch
WbDelete(b, cf, key) ==
    [ops |-> Append(b.ops, [op |-> "delete", cf |-> cf, key |-> key, value |-> <<>>]),
     data_size |-> b.data_size + Len(key)]

\* WriteBatch::clear and Mutable::is_empty
WbClear(b) == EmptyBatch
WbIsEmpty(b) == b.ops = <<>>

\* write_opt(batch, opts): the staged operations applied to the engine in
\* staging order; the first one that fails ends the write
RECURSIVE WriteOps(_, _)
WriteOps(e, ops) ==
    IF ops = <<>> THEN [e |-> e, res |-> "Ok"]
    ELSE LET o == Head(ops)
             r == IF o.op = "put" THEN PutCf(e, o.cf, o.key, o.value)
                  ELSE DeleteCf(e, o.cf, o.key)
         IN  IF r.res # "Ok" THEN r ELSE WriteOps(r.e, Tail(ops))

WriteOpt(e, b) == WriteOps(e, b.ops)

\* the batch size at which gc flushes.  engine_traits sets 32 KiB; here it is
\* the size of two staged log-key deletes, so that a gc of three or more
\* indices writes more than one batch
MAX_DELETE_BATCH_SIZE == 34

\* Iterable::seek(key): an unbounded iterator of the default CF, seek(Key(key)),
\* and the pair under the cursor if the seek returned true
IterableSeek(e, key) ==
    LET t == e.engines[CF_DEFAULT]
        r == IterSeek(IterNew(t, CF_DEFAULT, None, None), t, SeekTo(key))
    IN  IF r.res THEN Some(<<IterKey(r.it), IterValue(r.it)>>) ELSE None

\* -------------------------------------------- Raft log adaptor: gc, clean

\* (to - from) as usize on u64 operands: below zero the subtraction panics
\* in a build with overflow checks and wraps to 2^64 - n in one without
GcCount(from, to) ==
    IF from <= to THEN {Ok(to - from)}
    ELSE {Err("Panic"), [kind |-> "OkWrapped", n |-> from - to]}

\* gc, the loop `for idx in from..to` from idx on, raft_wb holding wb
RECURSIVE GcLoop(_, _, _, _, _)
GcLoop(e, raft_group_id, idx, to, wb) ==
    IF idx >= to THEN [e |-> e, wb |-> wb]
    ELSE LET wb1 == WbDelete(wb, CF_DEFAULT, raft_log_key(raft_group_id, idx))
         IN  IF wb1.data_size >= MAX_DELETE_BATCH_SIZE
             THEN GcLoop(WriteOpt(e, wb1).e, raft_group_id, idx + 1, to, WbClear(wb1))
             ELSE GcLoop(e, raft_group_id, idx + 1, to, wb1)

\* gc after `from` is settled: the deletes, the last flush, the count
GcFrom(e, raft_group_id, from, to) ==
    LET l == GcLoop(e, raft_group_id, from, to, EmptyBatch)
        e2 == IF ~WbIsEmpty(l.wb) THEN WriteOpt(l.e, l.wb).e ELSE l.e
    IN  [e |-> e2, results |-> GcCount(from, to)]

\* RaftEngine::gc(raft_group_id, from, to): the engine it leaves and the
\* results it can return
Gc(e, raft_group_id, from, to) ==
    IF from >= to THEN [e |-> e, results |-> {Ok(0)}]
    ELSE IF from = 0
    THEN LET found == IterableSeek(e, raft_log_key(raft_group_id, 0))
         IN  IF found # None /\ StartsWith(Unwrap(found)[1], raft_log_prefix(raft_group_id))
             THEN LET parsed == raft_log_index(Unwrap(found)[1])
                  IN  IF ~parsed.ok THEN [e |-> e, results |-> {Err("Other")}]
                      ELSE GcFrom(e, raft_group_id, parsed.index, to)
             ELSE [e |-> e, results |-> {Ok(0)}]    \* no need to gc
    ELSE GcFrom(e, raft_group_id, from, to)

\* clean, the loop `for index in first_index..=state.last_index`
RECURSIVE CleanLoop(_, _, _, _)
CleanLoop(b, raft_group_id, index, last_index) ==
    IF index > last_index THEN b
    ELSE CleanLoop(WbDelete(b, CF_DEFAULT, raft_log_key(raft_group_id, index)),
                   raft_group_id, index + 1, last_index)

\* RaftEngine::clean(raft_group_id, state, batch): the batch it leaves
Clean(e, raft_group_id, state, b) ==
    LET b1 == WbDelete(b, CF_DEFAULT, raft_state_key(raft_group_id))
        found == IterableSeek(e, raft_log_key(raft_group_id, 0))
    IN  IF found = None THEN b1
        ELSE IF ~StartsWith(Unwrap(found)[1], raft_log_prefix(raft_group_id))
        THEN b1                                    \* no raft logs for the group
        ELSE IF ~raft_log_index(Unwrap(found)[1]).ok THEN b1
        ELSE CleanLoop(b1, raft_group_id, raft_log_index(Unwrap(found)[1]).index,
                       state.last_index)

\* a consume that reads the batch's size after it has cleared the batch
ConsumeOpSizeAfterClear(e, b, sync_log) ==
    LET w == WriteOpt(e, b)
    IN  IF w.res # "Ok" THEN [e |-> w.e, batch |-> b, res |-> Err("Other")]
        ELSE [e |-> w.e, batch |-> WbClear(b), res |-> Ok(WbClear(b).data_size)]

\* RaftEngine::consume(batch, sync_log): the engine, the batch and the result
ConsumeOp(e, b, sync_log) ==
    LET bytes == b.data_size
        w == WriteOpt(e, b)
    IN  IF w.res # "Ok" THEN [e |-> w.e, batch |-> b, res |-> Err("Other")]
        ELSE [e |-> w.e, batch |-> WbClear(b), res |-> Ok(bytes)]

\* SkiplistWriteBatch::append_impl: a put per entry under its log key
RECURSIVE WbAppendImpl(_, _, _)
WbAppendImpl(b, raft_group_id, entries) ==
    IF entries = <<>> THEN b
    ELSE WbAppendImpl(
             WbPut(b, CF_DEFAULT, raft_log_key(raft_group_id, Head(entries).index),
                   EncodeEntry(Head(entries))),
             raft_group_id, Tail(entries))

\* RaftLogBatch::cut_logs: a delete per index of [from, to)
RECURSIVE WbCutLogs(_, _, _, _)
WbCutLogs(b, raft_group_id, from, to) ==
    IF from >= to THEN b
    ELSE WbCutLogs(WbDelete(b, CF_DEFAULT, raft_log_key(raft_group_id, from)),
                   raft_group_id, from + 1, to)


\* ---------------------------------------------------------------- actions

Call(op, args, res, value) == [op |-> op, args |-> args, res |-> res, value |-> value]
NoCall == Call("none", <<>>, "Ok", None)

\* what the calls made so far left under each CF name and key
NothingPut == [cf \in CfArgs |-> [k \in Keys |-> None]]

\* no loop is running; clean: no mutating call since the iterator was made
NotVisiting(clean) == [on |-> FALSE, keys |-> <<>>, clean |-> clean]

\* engine.get_value_cf(cf, key)
Get(cf, key) ==
    /\ ret' = LET r == GetValueCf(Engine, cf, key)
              IN  Call("get", <<cf, key>>, r.res, r.value)
    /\ UNCHANGED <<cf_handles, engines, total_bytes, iter, nops, latest, buf, batch, visited,
                   procs, node>>

\* engine.put_cf(cf, key, value)
Put(cf, key, value) ==
    /\ nops < MaxOps
    /\ LET r == PutCf(Engine, cf, key, value)
       IN  /\ SetEngine(r.e)
           /\ ret' = Call("put", <<cf, key, value>>, r.res, None)
    /\ nops' = nops + 1
    /\ latest' = [latest EXCEPT ![cf][key] = Some(value)]
    /\ visited' = NotVisiting(FALSE)
    /\ UNCHANGED <<iter, buf, batch, procs, node>>

\* engine.delete_cf(cf, key)
Delete(cf, key) ==
    /\ nops < MaxOps
    /\ LET r == DeleteCf(Engine, cf, key)
       IN  /\ SetEngine(r.e)
           /\ ret' = Call("delete", <<cf, key>>, r.res, None)
    /\ nops' = nops + 1
    /\ latest' = [latest EXCEPT ![cf][key] = None]
    /\ visited' = NotVisiting(FALSE)
    /\ UNCHANGED <<iter, buf, batch, procs, node>>

\* engine.delete_range_cf(cf, begin_key, end_key)
DeleteRange(cf, begin_key, end_key) ==
    /\ nops < MaxOps
    /\ LET r == DeleteRangeCf(Engine, cf, begin_key, end_key)
       IN  /\ SetEngine(r.e)
           /\ ret' = Call("delete_range", <<cf, begin_key, end_key>>, r.res, None)
    /\ nops' = nops + 1
    /\ latest' = [latest EXCEPT
                    ![cf] = [k \in Keys |->
                               IF KeyLe(begin_key, k) /\ KeyLt(k, end_key)
                               THEN None ELSE @[k]]]
    /\ visited' = NotVisiting(FALSE)
    /\ UNCHANGED <<iter, buf, batch, procs, node>>

\* the bounds an IterOptions may carry: absent, or a key; lower <= upper
IterBounds ==
    {b \in ({None} \cup {Some(k) : k \in Keys}) \X ({None} \cup {Some(k) : k \in Keys}) :
        b[1] = None \/ b[2] = None \/ KeyLe(Unwrap(b[1]), Unwrap(b[2]))}

\* engine.iterator_cf_opt(cf, opts)
NewIterator(cf, lower, upper) ==
    /\ IF HasCf(Engine, cf)
       THEN /\ iter' = IterNew(engines[cf], cf, lower, upper)
            /\ ret' = Call("iterator", <<cf, lower, upper>>, "Ok", None)
       ELSE /\ iter' = iter
            /\ ret' = Call("iterator", <<cf, lower, upper>>, "CFName", None)
    /\ visited' = NotVisiting(HasCf(Engine, cf) \/ visited.clean)
    /\ UNCHANGED <<cf_handles, engines, total_bytes, nops, latest, buf, batch, procs, node>>

\* iter.seek(sk); a seek(Start) begins the loop
\*   it.seek(Start); while it.valid() { read it.key(); it.next(); }
Seek(sk) ==
    /\ iter.made
    /\ LET r == IterSeek(iter, engines[iter.cf], sk)
       IN  /\ iter' = r.it
           /\ ret' = Call("seek", <<sk>>, r.res, None)
           /\ visited' = IF sk.kind = "Start"
                         THEN [on |-> TRUE,
                               keys |-> IF IterValid(r.it) THEN <<IterKey(r.it)>>
                                        ELSE <<>>,
                               clean |-> visited.clean]
                         ELSE NotVisiting(visited.clean)
    /\ UNCHANGED <<cf_handles, engines, total_bytes, nops, latest, buf, batch, procs, node>>

\* iter.seek_for_prev(sk)
SeekForPrev(sk) ==
    /\ iter.made
    /\ LET r == IterSeekForPrev(iter, engines[iter.cf], sk)
       IN  /\ iter' = r.it
           /\ ret' = Call("seek_for_prev", <<sk>>, r.res, None)
    /\ visited' = NotVisiting(visited.clean)
    /\ UNCHANGED <<cf_handles, engines, total_bytes, nops, latest, buf, batch, procs, node>>

\* iter.next(); inside the loop it is called while valid() holds, and the key
\* is read when valid() holds afterwards
Next_ ==
    /\ iter.made
    /\ LET r == IterNext(iter, engines[iter.cf])
       IN  /\ iter' = r.it
           /\ ret' = Call("next", <<>>, r.res, None)
           /\ visited' = IF visited.on /\ IterValid(iter)
                         THEN [visited EXCEPT
                                 !.keys = IF IterValid(r.it)
                                          THEN Append(@, IterKey(r.it)) ELSE @]
                         ELSE NotVisiting(visited.clean)
    /\ UNCHANGED <<cf_handles, engines, total_bytes, nops, latest, buf, batch, procs, node>>

\* iter.prev()
Prev ==
    /\ iter.made
    /\ LET r == IterPrev(iter, engines[iter.cf])
       IN  /\ iter' = r.it
           /\ ret' = Call("prev", <<>>, r.res, None)
    /\ visited' = NotVisiting(visited.clean)
    /\ UNCHANGED <<cf_handles, engines, total_bytes, nops, latest, buf, batch, procs, node>>

\* the inputs of the adaptor calls
Groups == {1, 2}
Payload == <<7, 7, 7, 7>>
\* the index ranges appended: to group 1 a prefix, a middle or a tail of the
\* log, to group 2 a short log or a single late entry
AppendRanges(g) ==
    IF g = 1 THEN {r \in {1, 2, 6} \X {3, MaxIndex - 1, MaxIndex} : r[1] <= r[2]}
    ELSE {<<1, 3>>, <<MaxIndex, MaxIndex>>}
\* the RaftLocalState values stored
RaftStates == {[hard_state |-> None, last_index |-> 3],
               [hard_state |-> Some([term |-> 1, vote |-> 1, commit |-> 1]),
                last_index |-> MaxIndex]}
\* the [low, high) ranges fetched, low <= high
FetchRanges ==
    {r \in {1, 2, 6, MaxIndex, MaxIndex + 1} \X {1, 2, 6, MaxIndex, MaxIndex + 1} :
        r[1] <= r[2]}
\* the max_size arguments: none, one that any entry reaches, one below and one
\* above the size of a single entry, and the size of ten entries
MaxSizes == {None, Some(0), Some(7), Some(9), Some(80)}
\* what the caller's buffer holds before the call
BufArgs == {<<>>, <<MkEntry(0, <<>>)>>}

\* engine.append(raft_group_id, entries) with the entries first..last
RaftAppend(raft_group_id, first, last) ==
    /\ nops < MaxAppends
    /\ ret.op # "fetch_entries_to"
    /\ LET entries == [i \in 1..(last - first + 1) |-> MkEntry(first + i - 1, Payload)]
       IN  SetEngine(AppendImpl(Engine, raft_group_id, entries))
    /\ ret' = Call("append", <<raft_group_id, first, last>>, Ok(0), None)
    /\ nops' = nops + 1
    /\ UNCHANGED <<iter, latest, buf, batch, visited, procs, node>>

\* engine.put_raft_state(raft_group_id, state)
PutRaftState(raft_group_id, state) ==
    /\ nops < MaxAppends
    /\ ret.op # "fetch_entries_to"
    /\ SetEngine(PutRaftStateOp(Engine, raft_group_id, state).e)
    /\ ret' = Call("put_raft_state", <<raft_group_id, state>>, Ok(0), None)
    /\ nops' = nops + 1
    /\ UNCHANGED <<iter, latest, buf, batch, visited, procs, node>>

\* engine.fetch_entries_to(region_id, low, high, max_size, &mut buf) with the
\* buffer holding buf0 before the call.  A fetch changes nothing a later call
\* reads: the calls after a fetch reach the states they reach without it, so
\* a behaviour makes its fetch last.
FetchEntries(region_id, low, high, max_size, buf0) ==
    /\ ret.op # "fetch_entries_to"
    /\ LET r == FetchEntriesTo(Engine, region_id, low, high, max_size, buf0)
       IN  /\ ret' = Call("fetch_entries_to",
                          <<region_id, low, high, max_size, buf0>>, r.res, None)
           /\ buf' = r.buf
    /\ UNCHANGED <<cf_handles, engines, total_bytes, iter, nops, latest, batch,
                   visited, procs, node>>

\* the [from, to) arguments of gc, from >= to among them
GcRanges == {0, 2, 6} \X {0, 3, 6, MaxIndex}

\* engine.gc(raft_group_id, from, to)
GcCall(raft_group_id, from, to) ==
    /\ ret.op # "gc"
    /\ LET r == Gc(Engine, raft_group_id, from, to)
       IN  /\ SetEngine(r.e)
           /\ \E res \in r.results :
                 ret' = Call("gc", <<raft_group_id, from, to>>, res, None)
    /\ UNCHANGED <<iter, nops, latest, buf, batch, visited, procs, node>>

\* the index ranges of the entries put in a batch, or appended before one is used
StagedRanges == {<<3, 3>>, <<2, 4>>}

\* batch.append(raft_group_id, entries) with the entries first..last
BatchAppend(raft_group_id, first, last) ==
    /\ Len(batch.ops) < MaxStaged
    /\ LET entries == [i \in 1..(last - first + 1) |-> MkEntry(first + i - 1, Payload)]
       IN  batch' = WbAppendImpl(batch, raft_group_id, entries)
    /\ ret' = Call("batch_append", <<raft_group_id, first, last>>, Ok(0), None)
    /\ UNCHANGED <<cf_handles, engines, total_bytes, iter, nops, latest, buf, visited,
                   procs, node>>

\* batch.cut_logs(raft_group_id, from, to)
BatchCutLogs(raft_group_id, from, to) ==
    /\ Len(batch.ops) < MaxStaged
    /\ batch' = WbCutLogs(batch, raft_group_id, from, to)
    /\ ret' = Call("cut_logs", <<raft_group_id, from, to>>, Ok(0), None)
    /\ UNCHANGED <<cf_handles, engines, total_bytes, iter, nops, latest, buf, visited,
                   procs, node>>

\* engine.clean(raft_group_id, state, &mut batch)
CleanCall(raft_group_id, state) ==
    /\ Len(batch.ops) < MaxStaged
    /\ batch' = Clean(Engine, raft_group_id, state, batch)
    /\ ret' = Call("clean", <<raft_group_id, state>>, Ok(0), None)
    /\ UNCHANGED <<cf_handles, engines, total_bytes, iter, nops, latest, buf, visited,
                   procs, node>>

\* engine.consume(&mut batch, sync_log)
Consume(sync_log) ==
    /\ nops < MaxAppends
    /\ LET r == ConsumeOp(Engine, batch, sync_log)
       IN  /\ SetEngine(r.e)
           /\ batch' = r.batch
           /\ ret' = Call("consume", <<sync_log, batch>>, r.res, None)
    /\ nops' = nops + 1
    /\ UNCHANGED <<iter, latest, buf, visited, procs, node>>

\* ------------------------------------------------------------------ the Node
\* Node::start and the functions it calls, one step per call it makes to PD,
\* to the engine's bootstrap records or to the batch system.  What PD and the
\* store helpers answer is an input of the step.

MAX_CHECK_CLUSTER_BOOTSTRAPPED_RETRY_COUNT == 60

\* Node::new, an engine without bootstrap records, and no call of start yet.
\*   has_started        the Node's flag
\*   ident, marker, region   the engine: its StoreIdent ("none", "ok",
\*                      "mismatch", "invalid"), whether PREPARE_BOOTSTRAP_KEY
\*                      is there, whether the prepared first region is there
\*   pc, result         where the running start is, what the last one returned
\*   retry              bootstrap_cluster's retry, check_cluster_bootstrapped's
\*                      loop counter
\*   asked, bc, via, clear_failed   bootstrap_cluster in this call: how often
\*                      it asked PD, what it returned, by which branch, and
\*                      whether clearing the engine's records failed
\*   calls, spawns, puts   calls of start, of system.spawn, of put_store
\*   started_before, reached_start_store, start_store_ok, spawned_now, put_now
\*                      this call of start: has_started when it began, and
\*                      what it has done
NoNode ==
    [has_started |-> FALSE, ident |-> "none", marker |-> FALSE, region |-> FALSE,
     pc |-> "idle", result |-> "none", retry |-> 0,
     asked |-> 0, bc |-> "none", via |-> "none", clear_failed |-> FALSE,
     calls |-> 0, spawns |-> 0, puts |-> 0,
     started_before |-> FALSE, reached_start_store |-> FALSE,
     start_store_ok |-> FALSE, spawned_now |-> FALSE, put_now |-> FALSE]

\* calls of Node::start in one behaviour
MaxStarts == 2

\* a step of the Node changes nothing else
NodeStep(n) ==
    /\ node' = n
    /\ UNCHANGED <<cf_handles, engines, total_bytes, iter, ret, nops, latest, buf,
                   batch, procs, visited>>

\* start returns Err through a `?`
Fail(n, reason) == [n EXCEPT !.pc = "idle", !.result = reason]

\* store::bootstrap_store writes the StoreIdent of this cluster and store
StoreBootstrapStore(n) == [n EXCEPT !.ident = "ok"]

\* store::prepare_bootstrap_cluster writes the first region and
\* PREPARE_BOOTSTRAP_KEY
StorePrepareBootstrapCluster(n) == [n EXCEPT !.marker = TRUE, !.region = TRUE]

\* store::clear_prepare_bootstrap_key deletes PREPARE_BOOTSTRAP_KEY
ClearPrepareBootstrapKey(n) == [n EXCEPT !.marker = FALSE]

\* store::clear_prepare_bootstrap_cluster deletes the prepared region and
\* PREPARE_BOOTSTRAP_KEY
ClearPrepareBootstrapCluster(n) == [n EXCEPT !.marker = FALSE, !.region = FALSE]

\* Node::start is called
NodeStart ==
    /\ node.pc = "idle"
    /\ node.calls < MaxStarts
    /\ NodeStep([node EXCEPT !.pc = "check_store", !.result = "none",
                             !.calls = @ + 1, !.retry = 0,
                             !.asked = 0, !.bc = "none", !.via = "none",
                             !.clear_failed = FALSE,
                             !.started_before = node.has_started,
                             !.reached_start_store = FALSE,
                             !.start_store_ok = FALSE,
                             !.spawned_now = FALSE, !.put_now = FALSE])

\* check_store: the store id of the engine's StoreIdent, INVALID_ID when
\* there is none
CheckStore(get_ok) ==
    /\ node.pc = "check_store"
    /\ NodeStep(IF ~get_ok THEN Fail(node, "get_msg")
                ELSE IF node.ident = "none" THEN [node EXCEPT !.pc = "bootstrap_store"]
                ELSE IF node.ident = "mismatch" THEN Fail(node, "cluster ID mismatch")
                ELSE IF node.ident = "invalid" THEN Fail(node, "invalid store ident")
                ELSE [node EXCEPT !.pc = "check_or_prepare_bootstrap_cluster"])

\* bootstrap_store: alloc_id, then store::bootstrap_store writes the ident
BootstrapStore(alloc_ok, write_ok) ==
    /\ node.pc = "bootstrap_store"
    /\ NodeStep(IF ~alloc_ok THEN Fail(node, "alloc_id")
                ELSE IF ~write_ok THEN Fail(node, "bootstrap_store")
                ELSE [StoreBootstrapStore(node) EXCEPT
                         !.pc = "check_or_prepare_bootstrap_cluster"])

\* check_or_prepare_bootstrap_cluster, its read of PREPARE_BOOTSTRAP_KEY
CheckOrPrepareBootstrapCluster(get_ok) ==
    /\ node.pc = "check_or_prepare_bootstrap_cluster"
    /\ NodeStep(IF ~get_ok THEN Fail(node, "get_msg")
                ELSE IF node.marker THEN [node EXCEPT !.pc = "bootstrap_cluster"]
                ELSE [node EXCEPT !.pc = "check_cluster_bootstrapped"])

\* check_cluster_bootstrapped, one turn of its loop: pd is what
\* is_cluster_bootstrapped answers
CheckClusterBootstrapped(pd) ==
    /\ node.pc = "check_cluster_bootstrapped"
    /\ node.retry < MAX_CHECK_CLUSTER_BOOTSTRAPPED_RETRY_COUNT
    /\ NodeStep(IF pd = "true" THEN [node EXCEPT !.pc = "start_store", !.retry = 0]
                ELSE IF pd = "false"
                THEN [node EXCEPT !.pc = "prepare_bootstrap_cluster", !.retry = 0]
                ELSE IF node.retry + 1 >= MAX_CHECK_CLUSTER_BOOTSTRAPPED_RETRY_COUNT
                THEN Fail(node, "check cluster bootstrapped failed")
                ELSE [node EXCEPT !.retry = @ + 1])

\* prepare_bootstrap_cluster: two alloc_id, then store::prepare_bootstrap_cluster
\* writes the first region and PREPARE_BOOTSTRAP_KEY
PrepareBootstrapCluster(alloc_ok, write_ok) ==
    /\ node.pc = "prepare_bootstrap_cluster"
    /\ NodeStep(IF ~alloc_ok THEN Fail(node, "alloc_id")
                ELSE IF ~write_ok THEN Fail(node, "prepare_bootstrap_cluster")
                ELSE [StorePrepareBootstrapCluster(node) EXCEPT
                         !.pc = "bootstrap_cluster"])

\* what PD answers to bootstrap_cluster, and to the get_region that follows
\* ClusterBootstrapped: the first region itself, another region, an error
BootstrapAnswers == {"Ok", "ClusterBootstrapped", "Err"}
RegionAnswers == {"same", "differ", "Err"}

\* bootstrap_cluster without the `?` on the two clear calls: a failed clear
\* is taken for a cleared record
BootstrapAttemptUnchecked(pd, region, clear_ok) ==
    IF pd = "Ok" THEN [kind |-> "Ok", via |-> "accepted"]
    ELSE IF pd = "ClusterBootstrapped" /\ region # "Err"
    THEN [kind |-> "Ok", via |-> region]
    ELSE [kind |-> "Retry", via |-> "none"]

\* bootstrap_cluster, the match of one turn of its loop: return Ok, return
\* through a `?`, or go on to retry += 1
BootstrapAttempt(pd, region, clear_ok) ==
    IF pd = "Ok"
    THEN IF clear_ok THEN [kind |-> "Ok", via |-> "accepted"]
         ELSE [kind |-> "Err", via |-> "accepted"]
    ELSE IF pd = "ClusterBootstrapped" /\ region # "Err"
    THEN IF clear_ok THEN [kind |-> "Ok", via |-> region]
         ELSE [kind |-> "Err", via |-> region]
    ELSE [kind |-> "Retry", via |-> "none"]

\* bootstrap_cluster, one turn of `while retry < MAX_...`; the turn that
\* brings retry to the maximum leaves the loop and returns the error
BootstrapCluster(pd, region, clear_ok) ==
    /\ node.pc = "bootstrap_cluster"
    /\ node.retry < MAX_CHECK_CLUSTER_BOOTSTRAPPED_RETRY_COUNT
    /\ LET a == BootstrapAttempt(pd, region, clear_ok)
           n == [node EXCEPT !.asked = @ + 1]
           cleared == IF ~clear_ok THEN n
                      ELSE IF a.via = "differ" THEN ClearPrepareBootstrapCluster(n)
                      ELSE ClearPrepareBootstrapKey(n)
       IN  NodeStep(
             IF a.kind = "Ok"
             THEN [cleared EXCEPT !.bc = "Ok", !.via = a.via, !.pc = "start_store"]
             ELSE IF a.kind = "Err"
             THEN Fail([n EXCEPT !.bc = "Err", !.via = a.via, !.clear_failed = TRUE],
                       "clear_prepare_bootstrap")
             ELSE IF node.retry + 1 >= MAX_CHECK_CLUSTER_BOOTSTRAPPED_RETRY_COUNT
             THEN Fail([n EXCEPT !.bc = "Err", !.retry = @ + 1],
                       "bootstrapped cluster failed")
             ELSE [n EXCEPT !.retry = @ + 1])

\* start_store without the has_started test
StartStoreUnguarded(has_started, spawn_ok) ==
    [has_started |-> TRUE, spawned |-> TRUE,
     res |-> IF spawn_ok THEN "Ok" ELSE "spawn"]

\* start_store: the has_started test, the flag, system.spawn(..)?
StartStoreOp(has_started, spawn_ok) ==
    IF has_started
    THEN [has_started |-> TRUE, spawned |-> FALSE, res |-> "already started"]
    ELSE [has_started |-> TRUE, spawned |-> TRUE,
          res |-> IF spawn_ok THEN "Ok" ELSE "spawn"]

StartStore(spawn_ok) ==
    /\ node.pc = "start_store"
    /\ LET r == StartStoreOp(node.has_started, spawn_ok)
           n == [node EXCEPT !.has_started = r.has_started,
                             !.reached_start_store = TRUE,
                             !.spawned_now = r.spawned,
                             !.spawns = IF r.spawned THEN @ + 1 ELSE @]
       IN  NodeStep(IF r.res = "Ok"
                    THEN [n EXCEPT !.start_store_ok = TRUE, !.pc = "put_store"]
                    ELSE Fail(n, r.res))

\* pd_client.put_store(..)?, then Ok(())
PutStore(pd_ok) ==
    /\ node.pc = "put_store"
    /\ NodeStep([node EXCEPT !.puts = @ + 1, !.put_now = TRUE, !.pc = "idle",
                             !.result = IF pd_ok THEN "Ok" ELSE "put_store"])

\* ------------------------------------------------- deletes run by threads
\* delete_cf and delete_range_cf on the default CF, one shared-memory
\* operation per step: the skiplist's remove and range iteration, and each
\* fetch_sub on total_bytes.  A thread makes one call.

Threads == {1, 2}

\* a thread's call: where it is, the entry it holds, and for a delete_range
\* the range and the last key the range iterator gave
Idle == [pc |-> "idle", key |-> <<>>, value |-> <<>>,
         begin_key |-> <<>>, end_key |-> <<>>, last |-> None]
NoProcs == [t \in Threads |-> Idle]

\* AtomicUsize::fetch_sub: it wraps, so a result below zero stands for
\* 2^64 + (a - n)
FetchSub(a, n) == a - n

\* delete_cf: engine.remove(key), Some(e) for the thread that removed it
DeleteRemove(t, key) ==
    /\ procs[t].pc = "idle"
    /\ IF key \in DOMAIN engines[CF_DEFAULT]
       THEN /\ engines' = [engines EXCEPT ![CF_DEFAULT] = Remove(@, key)]
            /\ procs' = [procs EXCEPT ![t] = [Idle EXCEPT !.pc = "delete_sub_key",
                             !.key = key, !.value = engines[CF_DEFAULT][key]]]
       ELSE /\ procs' = [procs EXCEPT ![t] = [Idle EXCEPT !.pc = "done"]]
            /\ UNCHANGED engines
    /\ UNCHANGED <<cf_handles, total_bytes, iter, ret, nops, latest, buf, batch,
                   node, visited>>

\* delete_range_cf: engine.range(begin_key..end_key)
RangeStart(t, begin_key, end_key) ==
    /\ procs[t].pc = "idle"
    /\ procs' = [procs EXCEPT ![t] = [Idle EXCEPT !.pc = "range_iter",
                     !.begin_key = begin_key, !.end_key = end_key]]
    /\ UNCHANGED <<cf_handles, engines, total_bytes, iter, ret, nops, latest, buf,
                   batch, node, visited>>

\* delete_range_cf: for_each takes the next entry of the range
RangeIter(t) ==
    /\ procs[t].pc = "range_iter"
    /\ LET p == procs[t]
           rest == {k \in RangeKeys(engines[CF_DEFAULT], p.begin_key, p.end_key) :
                       p.last = None \/ KeyLt(Unwrap(p.last), k)}
       IN  IF rest = {} THEN procs' = [procs EXCEPT ![t] = [Idle EXCEPT !.pc = "done"]]
           ELSE LET k == MinKey(rest)
                IN  procs' = [procs EXCEPT ![t] = [p EXCEPT !.pc = "range_remove",
                                  !.key = k, !.value = engines[CF_DEFAULT][k],
                                  !.last = Some(k)]]
    /\ UNCHANGED <<cf_handles, engines, total_bytes, iter, ret, nops, latest, buf,
                   batch, node, visited>>

\* delete_range_cf: e.remove(), whose result the closure does not look at
RangeRemove(t) ==
    /\ procs[t].pc = "range_remove"
    /\ engines' = [engines EXCEPT ![CF_DEFAULT] = Remove(@, procs[t].key)]
    /\ procs' = [procs EXCEPT ![t].pc = "range_sub_key"]
    /\ UNCHANGED <<cf_handles, total_bytes, iter, ret, nops, latest, buf, batch,
                   node, visited>>

\* total_bytes.fetch_sub(e.key().len())
SubKey(t) ==
    /\ procs[t].pc \in {"delete_sub_key", "range_sub_key"}
    /\ total_bytes' = FetchSub(total_bytes, Len(procs[t].key))
    /\ procs' = [procs EXCEPT ![t].pc = IF procs[t].pc = "delete_sub_key"
                                        THEN "delete_sub_value" ELSE "range_sub_value"]
    /\ UNCHANGED <<cf_handles, engines, iter, ret, nops, latest, buf, batch, node,
                   visited>>

\* total_bytes.fetch_sub(e.value().len()); a delete is over, a delete_range
\* goes on to the next entry
SubValue(t) ==
    /\ procs[t].pc \in {"delete_sub_value", "range_sub_value"}
    /\ total_bytes' = FetchSub(total_bytes, Len(procs[t].value))
    /\ procs' = [procs EXCEPT ![t] = IF procs[t].pc = "delete_sub_value"
                                     THEN [Idle EXCEPT !.pc = "done"]
                                     ELSE [procs[t] EXCEPT !.pc = "range_iter"]]
    /\ UNCHANGED <<cf_handles, engines, iter, ret, nops, latest, buf, batch, node,
                   visited>>

\* ----------------------------------------------------------- specifications

\* The engine as the builder leaves it, for any of the CF name lists.
Init ==
    /\ \E names \in CfNameLists : LET e == Build(names)
                                   IN  /\ cf_handles = e.cf_handles
                                       /\ engines = e.engines
                                       /\ total_bytes = e.total_bytes
    /\ iter = NoIter
    /\ ret = NoCall
    /\ nops = 0
    /\ latest = NothingPut
    /\ buf = <<>>
    /\ batch = EmptyBatch
    /\ procs = NoProcs
    /\ node = NoNode
    /\ visited = NotVisiting(FALSE)

\* the delete_range arguments tried
RangeArgs == {<<K1, K3>>, <<K2, K3>>, <<K1, K2>>, <<K3, K1>>}

Next ==
    \/ \E cf \in CfArgs, k \in Keys : Get(cf, k)
    \/ \E cf \in CfArgs, k \in Keys, v \in Values : Put(cf, k, v)
    \/ \E cf \in CfArgs, k \in Keys : Delete(cf, k)
    \/ \E cf \in CfArgs, r \in RangeArgs : DeleteRange(cf, r[1], r[2])

Spec == Init /\ [][Next]_vars

\* the engine after put_cf(cf, k, T[k]) for the keys of S in ascending order
RECURSIVE Load(_, _, _, _)
Load(e, cf, T, S) ==
    IF S = {} THEN e
    ELSE LET k == MinKey(S)
         IN  Load(PutCf(e, cf, k, T[k]).e, cf, T, S \ {k})

\* the tables the iterator is tried on
Tables == UNION {[S -> Values] : S \in SUBSET Keys}

\* An engine with the default CF alone, filled by puts of distinct keys; while
\* the iterator is used, entries of the table may be deleted.
InitIter ==
    /\ \E T \in Tables :
         LET e == Load(Build(<<>>), CF_DEFAULT, T, DOMAIN T)
         IN  /\ cf_handles = e.cf_handles
             /\ engines = e.engines
             /\ total_bytes = e.total_bytes
             /\ nops = Cardinality(DOMAIN T)
             /\ latest = [NothingPut EXCEPT
                            ![CF_DEFAULT] = [k \in Keys |->
                                IF k \in DOMAIN T THEN Some(T[k]) ELSE None]]
    /\ iter = NoIter
    /\ ret = NoCall
    /\ buf = <<>>
    /\ batch = EmptyBatch
    /\ procs = NoProcs
    /\ node = NoNode
    /\ visited = NotVisiting(FALSE)

NextIter ==
    \/ \E cf \in CfArgs, b \in IterBounds : NewIterator(cf, b[1], b[2])
    \/ Seek(SeekStart)
    \/ Seek(SeekEnd)
    \/ \E k \in Keys : Seek(SeekTo(k))
    \/ SeekForPrev(SeekStart)
    \/ SeekForPrev(SeekEnd)
    \/ \E k \in Keys : SeekForPrev(SeekTo(k))
    \/ Next_
    \/ Prev
    \/ \E k \in Keys : Delete(CF_DEFAULT, k)

SpecIter == InitIter /\ [][NextIter]_vars

\* The Raft log adaptor on an engine with the default CF.
InitRaft ==
    /\ LET e == Build(<<>>)
       IN  /\ cf_handles = e.cf_handles
           /\ engines = e.engines
           /\ total_bytes = e.total_bytes
    /\ nops = 0
    /\ latest = NothingPut
    /\ iter = NoIter
    /\ ret = NoCall
    /\ buf = <<>>
    /\ batch = EmptyBatch
    /\ procs = NoProcs
    /\ node = NoNode
    /\ visited = NotVisiting(FALSE)

NextRaft ==
    \/ \E g \in Groups : \E r \in AppendRanges(g) : RaftAppend(g, r[1], r[2])
    \/ \E g \in Groups, s \in RaftStates : PutRaftState(g, s)
    \/ \E g \in Groups, r \in FetchRanges, m \in MaxSizes, b \in BufArgs :
          FetchEntries(g, r[1], r[2], m, b)

SpecRaft == InitRaft /\ [][NextRaft]_vars

\* The adaptor's log garbage collection between appends.
NextGc ==
    \/ \E g \in Groups : \E r \in AppendRanges(g) : RaftAppend(g, r[1], r[2])
    \/ \E g \in Groups, s \in RaftStates : PutRaftState(g, s)
    \/ \E g \in Groups, r \in GcRanges : GcCall(g, r[1], r[2])

SpecGc == InitRaft /\ [][NextGc]_vars

\* A write batch staged by the caller and by clean, then consumed.
NextBatch ==
    \/ \E g \in Groups, r \in StagedRanges : RaftAppend(g, r[1], r[2])
    \/ \E g \in Groups, s \in RaftStates : PutRaftState(g, s)
    \/ \E g \in Groups, r \in StagedRanges : BatchAppend(g, r[1], r[2])
    \/ \E g \in Groups : BatchCutLogs(g, 2, 4)
    \/ \E g \in Groups, s \in RaftStates : CleanCall(g, s)
    \/ \E sync_log \in BOOLEAN : Consume(sync_log)

SpecBatch == InitRaft /\ [][NextBatch]_vars

\* Two threads, each with one delete or delete_range on a filled default CF.
InitConc ==
    /\ \E T \in Tables :
         LET e == Load(Build(<<>>), CF_DEFAULT, T, DOMAIN T)
         IN  /\ cf_handles = e.cf_handles
             /\ engines = e.engines
             /\ total_bytes = e.total_bytes
             /\ nops = Cardinality(DOMAIN T)
    /\ latest = NothingPut
    /\ iter = NoIter
    /\ ret = NoCall
    /\ buf = <<>>
    /\ batch = EmptyBatch
    /\ procs = NoProcs
    /\ node = NoNode
    /\ visited = NotVisiting(FALSE)

NextConc ==
    \/ \E t \in Threads, k \in Keys : DeleteRemove(t, k)
    \/ \E t \in Threads, r \in RangeArgs : RangeStart(t, r[1], r[2])
    \/ \E t \in Threads : RangeIter(t)
    \/ \E t \in Threads : RangeRemove(t)
    \/ \E t \in Threads : SubKey(t)
    \/ \E t \in Threads : SubValue(t)

SpecConc == InitConc /\ [][NextConc]_vars

\* the [from, to) ranges gc cuts before a fetch: the middle of a log, its head
HoleRanges == {<<2, 6>>, <<0, 3>>}

\* Appends, gc calls and fetches of the whole range with no size limit.
NextHole ==
    \/ \E g \in Groups : \E r \in AppendRanges(g) : RaftAppend(g, r[1], r[2])
    \/ \E g \in Groups, r \in HoleRanges : GcCall(g, r[1], r[2])
    \/ \E g \in Groups, r \in FetchRanges : FetchEntries(g, r[1], r[2], None, <<>>)

SpecHole == InitRaft /\ [][NextHole]_vars

\* the engines a Node is started on: without bootstrap records, bootstrapped,
\* bootstrapped with a prepared first region left by an earlier run, of
\* another cluster
NodeEngines ==
    {[ident |-> "none", marker |-> FALSE], [ident |-> "ok", marker |-> FALSE],
     [ident |-> "ok", marker |-> TRUE], [ident |-> "mismatch", marker |-> FALSE],
     [ident |-> "invalid", marker |-> FALSE]}

InitNode ==
    /\ LET e == Build(<<>>)
       IN  /\ cf_handles = e.cf_handles
           /\ engines = e.engines
           /\ total_bytes = e.total_bytes
    /\ nops = 0
    /\ latest = NothingPut
    /\ iter = NoIter
    /\ ret = NoCall
    /\ buf = <<>>
    /\ batch = EmptyBatch
    /\ procs = NoProcs
    /\ \E e \in NodeEngines :
          node = [NoNode EXCEPT !.ident = e.ident, !.marker = e.marker,
                                !.region = e.marker]
    /\ visited = NotVisiting(FALSE)

NextNode ==
    \/ NodeStart
    \/ \E get_ok \in BOOLEAN : CheckStore(get_ok)
    \/ \E alloc_ok, write_ok \in BOOLEAN : BootstrapStore(alloc_ok, write_ok)
    \/ \E get_ok \in BOOLEAN : CheckOrPrepareBootstrapCluster(get_ok)
    \/ \E pd \in {"true", "false", "Err"} : CheckClusterBootstrapped(pd)
    \/ \E alloc_ok, write_ok \in BOOLEAN : PrepareBootstrapCluster(alloc_ok, write_ok)
    \/ \E pd \in BootstrapAnswers, region \in RegionAnswers, clear_ok \in BOOLEAN :
          BootstrapCluster(pd, region, clear_ok)
    \/ \E spawn_ok \in BOOLEAN : StartStore(spawn_ok)
    \/ \E pd_ok \in BOOLEAN : PutStore(pd_ok)

\* every call the Node makes returns, and start is called again while it may
SpecNode == InitNode /\ [][NextNode]_vars /\ WF_vars(NextNode)

\* ------------------------------------------------------------------ claims

\* the summed |key| + |value| of the live entries of all column families
RECURSIVE LiveBytes(_)
LiveBytes(cfs) ==
    IF cfs = {} THEN 0
    ELSE LET cf == CHOOSE x \in cfs : TRUE
         IN  BytesOf(engines[cf], DOMAIN engines[cf]) + LiveBytes(cfs \ {cf})

\* C1: between calls, total_bytes equals the summed |key| + |value| of the
\* entries stored in all column families; an overwriting put replaces the old
\* value's contribution.  Stated for the engines in which every CF name the
\* calls use is registered, so that every call so far has succeeded.
C1_TotalBytesIsLiveSum ==
    CfArgs \subseteq cf_handles => total_bytes = LiveBytes(cf_handles)

\* C2: for every registered column family and key, get returns the value of
\* the most recent put of that key in that column family unless a delete or a
\* covering delete_range followed it, and None otherwise.
C2_GetReturnsLatest ==
    \A cf \in cf_handles, k \in Keys :
        GetValueCf(Engine, cf, k) = [res |-> "Ok", value |-> latest[cf][k]]

\* C2 witness: a get of the default CF returns the second of two values put
\* under a key while the write CF holds the first under the same key.
C2_Witness ==
    /\ ret = Call("get", <<"default", K1>>, "Ok", Some(V2))
    /\ cf_handles = {"default", "write"}
    /\ K1 \in DOMAIN engines["write"]
    /\ engines["write"][K1] = V1
    /\ nops = 3
    /\ total_bytes = (Len(K1) + Len(V1)) + (Len(K1) + Len(V2)) + (Len(K1) + Len(V1))

\* the engine after the step
EngineAfter ==
    [cf_handles |-> cf_handles', engines |-> engines', total_bytes |-> total_bytes']

\* C3: a successful delete_range(cf, a, b) leaves no key of [a, b) in cf,
\* leaves every other entry of cf and every other column family as it was,
\* and lowers total_bytes by exactly the summed size of the removed entries
\* (by nothing when no key lay in the range).
C3_DeleteRangeStep ==
    (/\ ret'.op = "delete_range"
     /\ ret'.res = "Ok"
     /\ nops' = nops + 1)
    => LET cf == ret'.args[1]
           a == ret'.args[2]
           b == ret'.args[3]
           t == engines[cf]
           gone == {k \in DOMAIN t : KeyLe(a, k) /\ KeyLt(k, b)}
       IN  /\ cf_handles' = cf_handles
           /\ \A k \in Keys : KeyLe(a, k) /\ KeyLt(k, b)
                  => GetValueCf(EngineAfter, cf, k) = [res |-> "Ok", value |-> None]
           /\ \A k \in Keys : ~(KeyLe(a, k) /\ KeyLt(k, b))
                  => GetValueCf(EngineAfter, cf, k) = GetValueCf(Engine, cf, k)
           /\ DOMAIN engines'[cf] = (DOMAIN t) \ gone
           /\ \A other \in cf_handles \ {cf} : engines'[other] = engines[other]
           /\ total_bytes' = total_bytes - BytesOf(t, gone)

C3_DeleteRange == [][C3_DeleteRangeStep]_vars

\* C3 witness: delete_range(K2, K3) has just removed K2 and kept K3, the end
\* of the range.  With three earlier calls on two registered column families,
\* total_bytes exceeds the live entry's size by |K2| + |V1| only if K2 was put
\* twice (once with V1) and was still stored when the range was deleted.
C3_Witness ==
    /\ ret = Call("delete_range", <<"default", K2, K3>>, "Ok", None)
    /\ nops = 4
    /\ cf_handles = {"default", "write"}
    /\ DOMAIN engines["default"] = {K3}
    /\ engines["default"][K3] = V1
    /\ DOMAIN engines["write"] = {}
    /\ total_bytes = (Len(K3) + Len(V1)) + (Len(K2) + Len(V1))

\* the live keys of the iterator's table inside the bounds of its options
InBounds(it, k) ==
    /\ it.lower = None \/ KeyLe(Unwrap(it.lower), k)
    /\ it.upper = None \/ KeyLe(k, Unwrap(it.upper))

LiveInBounds == {k \in DOMAIN engines[iter.cf] : InBounds(iter, k)}

\* the keys of S in ascending order
RECURSIVE Ascending(_)
Ascending(S) == IF S = {} THEN <<>> ELSE <<MinKey(S)>> \o Ascending(S \ {MinKey(S)})

\* C4: the loop seek(Start); while valid() { read key(); next() } over a table
\* left unchanged since the iterator was made reads exactly the live keys
\* within [lower, upper], ascending, and never a key above upper.
C4_IterationVisitsRange ==
    (visited.on /\ visited.clean)
    => /\ \A i \in 1..Len(visited.keys) : InBounds(iter, visited.keys[i])
       /\ ~IterValid(iter) => visited.keys = Ascending(LiveInBounds)

\* C5: after seek(Key(k)) the iterator is on the entry with the smallest key
\* >= k within [lower, upper], or invalid when there is none.
C5_SeekKey ==
    (iter.made /\ visited.clean /\ ret.op = "seek" /\ ret.args[1].kind = "Key")
    => LET S == {x \in LiveInBounds : KeyLe(ret.args[1].key, x)}
       IN  IF S = {} THEN ~IterValid(iter)
           ELSE /\ IterValid(iter)
                /\ IterKey(iter) = MinKey(S)
                /\ IterValue(iter) = engines[iter.cf][MinKey(S)]

\* C6: after seek_for_prev(Key(k)) the iterator is on the entry with the
\* largest key <= k within [lower, upper], or invalid when there is none.
C6_SeekForPrevKey ==
    (iter.made /\ visited.clean /\ ret.op = "seek_for_prev"
        /\ ret.args[1].kind = "Key")
    => LET S == {x \in LiveInBounds : KeyLe(x, ret.args[1].key)}
       IN  IF S = {} THEN ~IterValid(iter)
           ELSE /\ IterValid(iter)
                /\ IterKey(iter) = MaxKey(S)
                /\ IterValue(iter) = engines[iter.cf][MaxKey(S)]

\* C7: the boolean a seek or seek_for_prev call returned equals valid() right
\* after the call.
C7_SeekReturnsValid ==
    (iter.made /\ ret.op \in {"seek", "seek_for_prev"}) => ret.res = IterValid(iter)

\* C8: a freshly made iterator is valid on the first entry at or above the
\* lower bound when one lies within the bounds, and invalid otherwise.
C8_FreshIterator ==
    (ret.op = "iterator" /\ ret.res = "Ok")
    => IF LiveInBounds = {} THEN ~IterValid(iter)
       ELSE IterValid(iter) /\ IterKey(iter) = MinKey(LiveInBounds)

\* C9: whenever the iterator is invalid, key() and value() are empty.
C9_InvalidReadsEmpty ==
    (iter.made /\ ~IterValid(iter)) => (IterKey(iter) = <<>> /\ IterValue(iter) = <<>>)

\* the entry stored under raft_log_key(g, i) in the default CF, if any
StoredEntry(g, i) ==
    LET got == GetValueCf(Engine, CF_DEFAULT, raft_log_key(g, i))
    IN  IF got.res = "Ok" /\ got.value # None /\ DecodeEntry(Unwrap(got.value)).ok
        THEN Some(DecodeEntry(Unwrap(got.value)).entry)
        ELSE None

\* C10: with every index of [low, high) stored for the group and max_size
\* None, fetch_entries_to returns high - low and appends exactly the entries
\* low .. high-1 in order, on the small and on the large path, whatever else
\* is stored; with low = high it returns 0 and appends nothing.
C10_FetchAllPresent ==
    (ret.op = "fetch_entries_to" /\ ret.args[4] = None)
    => LET g == ret.args[1]
           low == ret.args[2]
           high == ret.args[3]
           buf0 == ret.args[5]
       IN  (\A i \in low..(high - 1) : StoredEntry(g, i) # None)
           => /\ ret.res = Ok(high - low)
              /\ buf = buf0 \o [j \in 1..(high - low) |->
                                   Unwrap(StoredEntry(g, low + j - 1))]

\* the last call was fetch_entries_to on the point-get path: low < high and
\* high - low <= RAFT_LOG_MULTI_GET_CNT
SmallFetch ==
    /\ ret.op = "fetch_entries_to"
    /\ ret.args[2] < ret.args[3]
    /\ ret.args[3] - ret.args[2] <= RAFT_LOG_MULTI_GET_CNT

\* C11: on the small-range path with max_size None, if some index of
\* [low, high) has no stored entry for the group, fetch_entries_to fails with
\* Storage::Unavailable.
C11_SmallMissingUnavailable ==
    (SmallFetch /\ ret.args[4] = None
        /\ \E i \in ret.args[2]..(ret.args[3] - 1) : StoredEntry(ret.args[1], i) = None)
    => ret.res = Err("Unavailable")

\* a small-range fetch that read stored entries before it met the missing one
C11_Witness ==
    /\ SmallFetch /\ ret.args[4] = None
    /\ StoredEntry(ret.args[1], ret.args[2]) # None
    /\ \E i \in ret.args[2]..(ret.args[3] - 1) : StoredEntry(ret.args[1], i) = None
    /\ ret.res = Err("Unavailable")

\* the last call was fetch_entries_to on the scan path
LargeFetch ==
    /\ ret.op = "fetch_entries_to"
    /\ ret.args[3] - ret.args[2] > RAFT_LOG_MULTI_GET_CNT

\* the group has a stored entry after index low and none at low or between
GapAtLow(g, low) ==
    \E i \in (low + 1)..(MaxIndex + 1) :
        /\ StoredEntry(g, i) # None
        /\ \A j \in low..(i - 1) : StoredEntry(g, j) = None

\* the default CF holds nothing but log entries of group g
OnlyLogsOf(g) ==
    \A k \in DOMAIN engines[CF_DEFAULT] : StartsWith(k, raft_log_prefix(g))

\* C12 as stated: on the large-range path, when the first stored entry at or
\* after index low has another index than low, fetch_entries_to returns Ok(0)
\* and appends nothing.
C12_LargeGapReturnsOk ==
    (LargeFetch /\ GapAtLow(ret.args[1], ret.args[2]))
    => (ret.res = Ok(0) /\ buf = ret.args[5])

\* C12 as amended: on the large-range path with max_size None, when the first
\* stored entry at or after index low has another index than low,
\* fetch_entries_to returns an error; when the default CF holds only log
\* entries of the group the error is Storage::Unavailable and nothing is
\* appended.
C12_LargeGapFails ==
    (LargeFetch /\ ret.args[4] = None /\ GapAtLow(ret.args[1], ret.args[2]))
    => /\ ret.res.kind # "Ok"
       /\ OnlyLogsOf(ret.args[1]) => (ret.res = Err("Unavailable") /\ buf = ret.args[5])

\* a large-range fetch with max_size None over a log that starts after low
C12_Witness ==
    /\ LargeFetch /\ ret.args[4] = None
    /\ GapAtLow(ret.args[1], ret.args[2])
    /\ OnlyLogsOf(ret.args[1])
    /\ ret.res = Err("Unavailable")

\* the summed length of the values stored for the n indices from low on
RECURSIVE StoredSize(_, _, _)
StoredSize(g, low, n) ==
    IF n = 0 THEN 0
    ELSE StoredSize(g, low, n - 1) + Len(EncodeEntry(Unwrap(StoredEntry(g, low + n - 1))))

\* how many entries of [low, high) a fetch limited to m bytes returns: the
\* shortest non-empty prefix whose size reaches m, or all of them
PrefixLen(g, low, high, m) ==
    LET reach == {n \in 1..(high - low) : StoredSize(g, low, n) >= m}
    IN  IF reach = {} THEN high - low
        ELSE CHOOSE n \in reach : \A n2 \in reach : n <= n2

\* C13: with every index of [low, high) stored, low < high and max_size
\* Some(m), fetch_entries_to returns the shortest non-empty prefix of the
\* entries from low on whose summed encoded size is at least m, or all
\* high - low entries when no prefix reaches m, on either path.
C13_MaxSizePrefix ==
    (ret.op = "fetch_entries_to" /\ ret.args[4] # None /\ ret.args[2] < ret.args[3]
        /\ \A i \in ret.args[2]..(ret.args[3] - 1) : StoredEntry(ret.args[1], i) # None)
    => LET g == ret.args[1]
           low == ret.args[2]
           n == PrefixLen(g, low, ret.args[3], Unwrap(ret.args[4]))
       IN  /\ ret.res = Ok(n)
           /\ buf = ret.args[5] \o [j \in 1..n |-> Unwrap(StoredEntry(g, low + j - 1))]

\* the value engine e holds under a key of the default CF, if any
ValueAt(e, key) == GetValueCf(e, CF_DEFAULT, key).value

\* the indices a log entry of the group is stored under in engine e
LogIndices(e, g) ==
    {i \in 0..(MaxIndex + 1) : ValueAt(e, raft_log_key(g, i)) # None}

\* the keys of the default CF of e that are not log keys of the group
KeysOutside(e, g) ==
    {k \in DOMAIN e.engines[CF_DEFAULT] : ~StartsWith(k, raft_log_prefix(g))}

\* C14: after gc(g, from, to) with from < to returns on a group with stored
\* log entries, no entry of the group with index in [from, to) remains, every
\* entry of the group with index >= to is still there with its value, and
\* the group's state record and all entries of other groups are unchanged.
C14_GcStep ==
    (ret'.op = "gc" /\ ret'.res.kind = "Ok" /\ ret'.args[2] < ret'.args[3]
        /\ LogIndices(Engine, ret'.args[1]) # {})
    => LET g == ret'.args[1]
           from == ret'.args[2]
           to == ret'.args[3]
       IN  /\ \A i \in LogIndices(EngineAfter, g) : ~(from <= i /\ i < to)
           /\ \A i \in LogIndices(Engine, g) :
                 i >= to => ValueAt(EngineAfter, raft_log_key(g, i))
                                = ValueAt(Engine, raft_log_key(g, i))
           /\ KeysOutside(EngineAfter, g) = KeysOutside(Engine, g)
           /\ \A k \in KeysOutside(Engine, g) : ValueAt(EngineAfter, k) = ValueAt(Engine, k)

C14_GcRemovesRange == [][C14_GcStep]_vars

\* C15: the value gc(g, from, to) returns for from < to on a non-empty log is
\* to - from, computed from the arguments the caller passed.
C15_GcStep ==
    (ret'.op = "gc" /\ ret'.args[2] < ret'.args[3]
        /\ LogIndices(Engine, ret'.args[1]) # {})
    => ret'.res = Ok(ret'.args[3] - ret'.args[2])

C15_GcReturnsCount == [][C15_GcStep]_vars

\* C16: gc(g, from, to) returns 0 and writes nothing to the engine when
\* from >= to, and when from = 0 and the group has no stored log entry,
\* whatever other groups have stored.
C16_GcStep ==
    (ret'.op = "gc"
        /\ \/ ret'.args[2] >= ret'.args[3]
           \/ ret'.args[2] = 0 /\ LogIndices(Engine, ret'.args[1]) = {})
    => /\ ret'.res = Ok(0)
       /\ UNCHANGED <<cf_handles, engines, total_bytes>>

C16_GcNothingToDo == [][C16_GcStep]_vars

\* gc from 0 returned for a group without log entries while a group with a
\* larger id has log entries and a state record
C16_Witness ==
    /\ ret.op = "gc" /\ ret.args[1] = 1 /\ ret.args[2] = 0 /\ ret.args[3] > 0
    /\ ret.res = Ok(0)
    /\ LogIndices(Engine, 1) = {}
    /\ LogIndices(Engine, 2) # {}
    /\ ValueAt(Engine, raft_state_key(2)) # None

\* a staged delete of a key of the default CF
StagedDelete(key) == [op |-> "delete", cf |-> CF_DEFAULT, key |-> key, value |-> <<>>]

\* the deletes clean is to stage for the group: its state key, then, if the
\* group has a stored log entry, its log keys from the first stored index up
\* to last_index
CleanDeletes(e, g, last_index) ==
    <<StagedDelete(raft_state_key(g))>>
    \o (IF LogIndices(e, g) = {} THEN <<>>
        ELSE LET first == CHOOSE i \in LogIndices(e, g) :
                              \A j \in LogIndices(e, g) : i <= j
             IN  [n \in 1..(last_index - first + 1) |->
                     StagedDelete(raft_log_key(g, first + n - 1))])

\* C17: clean(g, state, batch) never modifies the engine; it appends to the
\* batch a delete of raft_state_key(g) and, only if the group has a stored
\* log entry, deletes of raft_log_key(g, i) for exactly the indices from the
\* first stored index of the group up to state.last_index, and no delete of
\* a key of another group.
C17_CleanStep ==
    ret'.op = "clean"
    => /\ UNCHANGED <<cf_handles, engines, total_bytes>>
       /\ batch'.ops = batch.ops
                       \o CleanDeletes(Engine, ret'.args[1], ret'.args[2].last_index)

C17_CleanStages == [][C17_CleanStep]_vars

\* the position of the last operation of ops on the key, 0 if there is none
LastOn(ops, key) ==
    LET S == {j \in 1..Len(ops) : ops[j].key = key}
    IN  IF S = {} THEN 0 ELSE CHOOSE j \in S : \A j2 \in S : j2 <= j

\* what a key of the default CF holds once ops have been applied to e: what
\* the last operation on the key leaves, or what e held
AfterOps(e, ops, key) ==
    LET j == LastOn(ops, key)
    IN  IF j = 0 THEN ValueAt(e, key)
        ELSE IF ops[j].op = "put" THEN Some(ops[j].value)
        ELSE None

\* C18: consume(batch, sync) leaves the engine as the staged operations
\* applied one by one in staging order leave it, returns the data_size the
\* batch had before the call and leaves the batch empty with data_size 0,
\* whatever the sync flag.
C18_ConsumeStep ==
    ret'.op = "consume"
    => /\ \A key \in DOMAIN engines[CF_DEFAULT] \cup DOMAIN engines'[CF_DEFAULT]
                     \cup {batch.ops[j].key : j \in 1..Len(batch.ops)} :
             ValueAt(EngineAfter, key) = AfterOps(Engine, batch.ops, key)
       /\ cf_handles' = cf_handles
       /\ ret'.res = Ok(batch.data_size)
       /\ batch'.ops = <<>>
       /\ batch'.data_size = 0

C18_ConsumeApplies == [][C18_ConsumeStep]_vars

\* a batch with a put followed by a delete of the same key was consumed
C18_Witness ==
    /\ ret.op = "consume" /\ ret.res.kind = "Ok" /\ ret.res.n > 0
    /\ LET ops == ret.args[2].ops
       IN  \E i, j \in 1..Len(ops) :
              /\ i < j /\ ops[i].op = "put" /\ ops[j].op = "delete"
              /\ ops[i].key = ops[j].key
              /\ LastOn(ops, ops[i].key) = j
              /\ ValueAt(Engine, ops[i].key) = None
    /\ batch = EmptyBatch

\* C19: every engine the builder produces has a registered default column
\* family, whatever list of CF names the builder was given, so the calls on
\* the default CF never fail with CFName.
C19_DefaultCfExists ==
    /\ CF_DEFAULT \in cf_handles
    /\ (ret.op \in {"get", "put", "delete", "delete_range"} /\ ret.args[1] = CF_DEFAULT)
       => ret.res # "CFName"

\* C20: a get, put, delete or delete_range that names a column family not
\* registered in the engine fails with CFName and leaves the engine as it
\* was: no table changes and total_bytes keeps its value.
C20_CfNameStep ==
    (ret'.op \in {"get", "put", "delete", "delete_range"} /\ ret'.args[1] \notin cf_handles)
    => /\ ret'.res = "CFName"
       /\ UNCHANGED <<cf_handles, engines, total_bytes>>

C20_CfNameLeavesEngine == [][C20_CfNameStep]_vars

\* C21: when a delete and a delete_range that covers its key, or two
\* overlapping delete_ranges, run concurrently on a stored entry, total_bytes
\* is decremented for the entry once: it never goes below zero, and once the
\* calls are over it equals the summed size of the live entries.
C21_ConcurrentDeletesCountOnce ==
    /\ total_bytes >= 0
    /\ (\A t \in Threads : procs[t].pc \in {"idle", "done"})
       => total_bytes = LiveBytes(cf_handles)

\* the entries the last fetch_entries_to appended to the buffer
Appended == SubSeq(buf, Len(ret.args[5]) + 1, Len(buf))

\* C22: every entry fetch_entries_to(g, low, high, max_size, out) appends
\* belongs to the group and has an index in [low, high), and the call appends
\* at most high - low entries, whatever else the engine holds.
C22_FetchStaysInRange ==
    ret.op = "fetch_entries_to"
    => /\ Len(Appended) <= ret.args[3] - ret.args[2]
       /\ \A j \in 1..Len(Appended) :
             /\ ret.args[2] <= Appended[j].index
             /\ Appended[j].index < ret.args[3]
             /\ StoredEntry(ret.args[1], Appended[j].index) = Some(Appended[j])

\* C23: after any appends of entries with consecutive indices and any gc
\* calls, fetch_entries_to with low <= high returns Ok(count) or
\* Storage::Unavailable: its index assertions never fail, also when gc has
\* cut a hole in the middle of the stored log.
C23_FetchNeverPanics ==
    ret.op = "fetch_entries_to" => ret.res.kind \in {"Ok", "Unavailable"}


\* C24: the count gc(g, from, to) returns is never larger than to and is
\* computed without unsigned underflow: with from = 0 and the group's first
\* stored index at or above to, gc deletes nothing and returns 0.
C24_GcStep ==
    ret'.op = "gc"
    => LET g == ret'.args[1]
           from == ret'.args[2]
           to == ret'.args[3]
       IN  /\ ret'.res.kind = "Ok"
           /\ ret'.res.n <= to
           /\ (from = 0 /\ LogIndices(Engine, g) # {}
                  /\ \A i \in LogIndices(Engine, g) : i >= to)
              => /\ ret'.res = Ok(0)
                 /\ UNCHANGED <<cf_handles, engines, total_bytes>>

C24_GcCountNoUnderflow == [][C24_GcStep]_vars


\* C25 as stated: when fetch_entries_to returns Storage::Unavailable the
\* caller's buffer holds exactly what it held before the call.
C25_UnavailableRestoresBuffer ==
    (ret.op = "fetch_entries_to" /\ ret.res = Err("Unavailable"))
    => buf = ret.args[5]

\* the first index of [low, high) the group has no stored entry for
FirstMissing(g, low, high) ==
    LET miss == {i \in low..(high - 1) : StoredEntry(g, i) = None}
    IN  CHOOSE i \in miss : \A i2 \in miss : i <= i2

\* C25, amended: when fetch_entries_to returns Storage::Unavailable the
\* buffer still begins with what it held before the call and the entries read
\* before the failure stay appended behind it, with consecutive indices from
\* low on; on the small-range path they are exactly the group's stored
\* entries from low up to the first missing index.
C25_UnavailableKeepsRead ==
    (ret.op = "fetch_entries_to" /\ ret.res = Err("Unavailable"))
    => /\ Len(buf) >= Len(ret.args[5])
       /\ SubSeq(buf, 1, Len(ret.args[5])) = ret.args[5]
       /\ \A j \in 1..Len(Appended) : Appended[j].index = ret.args[2] + j - 1
       /\ SmallFetch
          => /\ Len(Appended) = FirstMissing(ret.args[1], ret.args[2], ret.args[3]) - ret.args[2]
             /\ \A j \in 1..Len(Appended) :
                   StoredEntry(ret.args[1], ret.args[2] + j - 1) = Some(Appended[j])

\* a small-range fetch into a non-empty buffer failed with Unavailable after
\* it had appended entries
C25_Witness ==
    /\ SmallFetch /\ ret.res = Err("Unavailable")
    /\ ret.args[5] # <<>>
    /\ Len(buf) > Len(ret.args[5])


\* what C26 says of every state of bootstrap_cluster: it has asked PD at
\* most 60 times, and after it returned Ok the prepare-bootstrap marker is
\* cleared, and so is the prepared region when PD's first region differs
BootstrapBounded ==
    /\ node.asked <= MAX_CHECK_CLUSTER_BOOTSTRAPPED_RETRY_COUNT
    /\ node.bc = "Ok"
       => /\ ~node.marker
          /\ node.via \in {"accepted", "same", "differ"}
          /\ node.via = "differ" => ~node.region

\* C26 as stated, its safety part: Node::bootstrap_cluster asks PD at most
\* MAX_CHECK_CLUSTER_BOOTSTRAPPED_RETRY_COUNT times, returns Ok only after the
\* marker is cleared, and returns an error exactly when all 60 attempts
\* failed.
C26_ErrorOnlyAfterAllAttempts ==
    /\ BootstrapBounded
    /\ node.bc = "Err" <=> node.retry = MAX_CHECK_CLUSTER_BOOTSTRAPPED_RETRY_COUNT

\* C26, amended: Node::bootstrap_cluster always terminates; it asks PD at
\* most 60 times, returns Ok only after the marker is cleared (and the
\* prepared region too when PD's first region differs), and returns an error
\* exactly when all 60 attempts failed or when clearing the engine's records
\* failed, which ends it on that attempt.
C26_BootstrapTerminates ==
    /\ [](/\ BootstrapBounded
          /\ node.bc = "Err"
             <=> (\/ node.retry = MAX_CHECK_CLUSTER_BOOTSTRAPPED_RETRY_COUNT
                  \/ node.clear_failed))
    /\ (node.pc = "bootstrap_cluster") ~> (node.pc # "bootstrap_cluster")

\* bootstrap_cluster returned its error after 60 attempts that all failed,
\* the marker still in the engine
C26_Witness ==
    /\ node.bc = "Err"
    /\ node.asked = MAX_CHECK_CLUSTER_BOOTSTRAPPED_RETRY_COUNT
    /\ node.retry = MAX_CHECK_CLUSTER_BOOTSTRAPPED_RETRY_COUNT
    /\ ~node.clear_failed
    /\ node.marker

\* a call of start on a Node whose has_started was set has returned
RestartReturned ==
    node.pc = "idle" /\ node.calls > 0 /\ node.started_before

\* what C27 says of spawn and put_store: system.spawn is called at most once
\* per Node, and put_store only in a call of start whose start_store
\* succeeded
SpawnOncePutAfterStart ==
    /\ node.spawns <= 1
    /\ node.put_now => node.start_store_ok /\ node.spawned_now
    /\ node.pc = "put_store" => node.start_store_ok

\* C27 as stated: the batch system is spawned at most once per Node, a start
\* on a Node whose has_started is set fails with 'already started' without
\* spawning again, and put_store is called only after start_store succeeded
\* in the same call.
C27_RestartFailsAlreadyStarted ==
    /\ SpawnOncePutAfterStart
    /\ RestartReturned => node.result = "already started" /\ ~node.spawned_now

\* C27, amended: the batch system is spawned at most once per Node; a start
\* on a Node whose has_started is set always fails, without spawning and
\* without put_store: with 'already started' when it reaches start_store,
\* with the error of check_store, check_or_prepare_bootstrap_cluster or
\* bootstrap_cluster when one of them fails first; put_store is called only
\* after start_store succeeded in the same call.
C27_RestartFails ==
    /\ SpawnOncePutAfterStart
    /\ RestartReturned
       => /\ node.result \notin {"Ok", "none"}
          /\ ~node.spawned_now /\ ~node.put_now
          /\ node.reached_start_store <=> node.result = "already started"

\* the second start on a Node that spawned its batch system reached
\* start_store and failed there
C27_Witness ==
    /\ RestartReturned
    /\ node.reached_start_store
    /\ node.result = "already started"
    /\ node.spawns = 1

====
